---- MODULE Spec2Model ----
(***************************************************************************)
(* Console (crossterm_winapi/src/console.rs): a wrapper that issues        *)
(* console device calls on the Handle it holds.  The device (input queue,  *)
(* text attribute, screen cells, cursor, window) is the environment; every *)
(* device call a Console operation makes is recorded in `calls`.           *)
(***************************************************************************)
EXTENDS Integers, Sequences, FiniteSets, TLC

\* ------------------------------------------------------------------ bounds
MaxQueue == 2
MaxBufLen == 4
ScreenCells == 2

Min(a, b) == IF a < b THEN a ELSE b

\* ------------------------------------------------------------- the handles
Consoles == {"a", "b", "c"}
ValidHandle == "conhost"
InvalidHandle == "invalid"

\* impl From<Handle> for Console: the Console holds the given Handle.
FromHandle(h) == h

\* impl From<HANDLE> for Console: the raw identifier is wrapped, unchecked.
FromRawHandle(raw) == raw

\* ---------------------------------------------------------- UTF-8 / UTF-16
\* The bytes write_char_buffer is exercised with: 'A', continuation bytes
\* 0x80 and 0xA9, and the lead bytes of 2-, 3- and 4-byte sequences.
Bytes == {65, 128, 169, 195, 226, 240}

IsCont(b) == b >= 128 /\ b <= 191

\* Length of the well-formed UTF-8 sequence at the head of s, 0 when the head
\* is malformed (str::from_utf8's acceptance table).
SeqLenAt(s) ==
    LET b1 == s[1]
        n == Len(s)
    IN  IF b1 <= 127 THEN 1
        ELSE IF b1 >= 194 /\ b1 <= 223
            THEN IF n >= 2 /\ IsCont(s[2]) THEN 2 ELSE 0
        ELSE IF b1 >= 224 /\ b1 <= 239
            THEN IF /\ n >= 3
                    /\ IsCont(s[2])
                    /\ IsCont(s[3])
                    /\ (b1 = 224 => s[2] >= 160)
                    /\ (b1 = 237 => s[2] <= 159)
                 THEN 3 ELSE 0
        ELSE IF b1 >= 240 /\ b1 <= 244
            THEN IF /\ n >= 4
                    /\ IsCont(s[2])
                    /\ IsCont(s[3])
                    /\ IsCont(s[4])
                    /\ (b1 = 240 => s[2] >= 144)
                    /\ (b1 = 244 => s[2] <= 143)
                 THEN 4 ELSE 0
        ELSE 0

\* Code point of the well-formed sequence of length k at the head of s.
CodePointAt(s, k) ==
    IF k = 1 THEN s[1]
    ELSE IF k = 2 THEN (s[1] % 32) * 64 + (s[2] % 64)
    ELSE IF k = 3 THEN (s[1] % 16) * 4096 + (s[2] % 64) * 64 + (s[3] % 64)
    ELSE (s[1] % 8) * 262144 + (s[2] % 64) * 4096 + (s[3] % 64) * 64 + (s[4] % 64)

RECURSIVE Utf8Valid(_)
Utf8Valid(s) ==
    IF s = <<>> THEN TRUE
    ELSE LET k == SeqLenAt(s)
         IN  k > 0 /\ Utf8Valid(SubSeq(s, k + 1, Len(s)))

\* A validation that lets every buffer through.
from_utf8_lenient(buf) == TRUE

\* str::from_utf8(buf) is Ok
from_utf8(buf) == Utf8Valid(buf)

\* The code points of s; a malformed byte decodes to U+FFFD.
RECURSIVE Chars(_)
Chars(s) ==
    IF s = <<>> THEN <<>>
    ELSE LET k == SeqLenAt(s)
         IN  IF k = 0 THEN <<65533>> \o Chars(Tail(s))
             ELSE <<CodePointAt(s, k)>> \o Chars(SubSeq(s, k + 1, Len(s)))

\* char::encode_utf16: one unit below U+10000, a surrogate pair above.
Utf16Of(cp) ==
    IF cp < 65536 THEN <<cp>>
    ELSE <<55296 + ((cp - 65536) \div 1024), 56320 + ((cp - 65536) % 1024)>>

RECURSIVE EncodeCodePoints(_)
EncodeCodePoints(cps) ==
    IF cps = <<>> THEN <<>>
    ELSE Utf16Of(Head(cps)) \o EncodeCodePoints(Tail(cps))

\* utf8.encode_utf16().collect()
encode_utf16(utf8) == EncodeCodePoints(Chars(utf8))

\* Every byte buffer of at most MaxBufLen bytes.
AllBufs == UNION {[1..n -> Bytes] : n \in 0..MaxBufLen}

\* The buffers the interleaved specification writes: "A", "e-acute", a lone
\* continuation byte, a truncated sequence and a 4-byte code point.
SampleBufs == {<<65>>, <<195, 169>>, <<128>>, <<226, 128>>, <<240, 169, 128, 128>>}

\* ------------------------------------------------------------------- state
VARIABLES
    handle,     \* Console.handle of every Console instance
    queue,      \* device: the pending native input records, oldest first
    attribute,  \* device: the text attribute applied to written cells
    screen,     \* device: the attribute of every screen cell
    cursor,     \* device: the cell the next write starts at (0-based)
    window,     \* device: the visible window, a native rectangle
    pc,         \* "ready", or "read_input" between the query and the read
    op,         \* the operation invoked last ("none" before the first)
    self,       \* the Console it was invoked on
    arg,        \* its arguments
    buf_len,    \* the pending count the invocation observed
    calls,      \* the device calls the invocation made, in order
    ret,        \* its result
    input,      \* the buffer drawn for write_char_buffer (InitW)
    last_set    \* history: the last set_text_attribute that returned Ok

vars == <<handle, queue, attribute, screen, cursor, window,
          pc, op, self, arg, buf_len, calls, ret, input, last_set>>

device == <<queue, attribute, screen, cursor, window>>
output == <<attribute, screen, cursor, window>>

\* The native input records the device queues (INPUT_RECORD).
NativeRecords ==
    { [EventType |-> "KEY_EVENT", bKeyDown |-> 1, wVirtualKeyCode |-> 65],
      [EventType |-> "MOUSE_EVENT", X |-> 1, Y |-> 0] }

\* InputRecord::from(INPUT_RECORD): the tagged variant of a native record.
InputRecordFrom(n) ==
    IF n.EventType = "KEY_EVENT"
    THEN [kind |-> "KeyEvent", key_down |-> (n.bKeyDown # 0),
          virtual_key_code |-> n.wVirtualKeyCode]
    ELSE [kind |-> "MouseEvent", x |-> n.X, y |-> n.Y]

\* Truncation of an integer to a signed 16-bit device field.
ToI16(v) == IF v % 65536 >= 32768 THEN (v % 65536) - 65536 ELSE v % 65536

\* COORD::from(Coord)
CoordToNative(c) == [X |-> ToI16(c.x), Y |-> ToI16(c.y)]

\* Coord::from(COORD)
CoordFromNative(n) == [x |-> n.X, y |-> n.Y]

\* SMALL_RECT::from(WindowPositions)
SmallRectFrom(r) ==
    [Left |-> ToI16(r.left_x), Top |-> ToI16(r.top_y),
     Right |-> ToI16(r.right_x), Bottom |-> ToI16(r.bottom_y)]

\* `filling_char as i8`: the low byte of the code point, signed.
AsI8(c) == IF c % 256 >= 128 THEN (c % 256) - 256 ELSE c % 256

\* Argument values the operations are invoked with.
Attributes == {7, 12}
Coords == {[x |-> 0, y |-> 0], [x |-> ScreenCells, y |-> 0]}
CellCounts == {1, ScreenCells + 1}
FillChars == {32, 233}
Rects == {[left_x |-> 0, top_y |-> 0, right_x |-> ScreenCells - 1, bottom_y |-> 0],
          [left_x |-> 0, top_y |-> 0, right_x |-> ScreenCells, bottom_y |-> 0]}

Ok(v) == [kind |-> "Ok", val |-> v]
Err(e) == [kind |-> "Err", val |-> e]
Pending == [kind |-> "Pending", val |-> <<>>]
None == <<>>
Some(v) == <<v>>

\* One device call: the function, its arguments, whether it signalled
\* success, and what it handed back.
Call(fn, a, ok, out) == [fn |-> fn, arg |-> a, ok |-> ok, out |-> out]

\* The success signals the device can give on a handle: an invalid handle
\* fails every call, a valid one may still fail.
DeviceOk(h) == IF h = ValidHandle THEN {TRUE, FALSE} ELSE {FALSE}

\* The device's cells from..(from + n - 1), wrapping, set to attribute a.
Stamp(scr, from, n, a) ==
    [i \in 1..ScreenCells |->
        IF \E j \in 0..(n - 1) : ((from + j) % ScreenCells) + 1 = i
        THEN a ELSE scr[i]]

\* Whether the device accepts a start coordinate / a window rectangle.
CoordInBuffer(c) == c.X >= 0 /\ c.X < ScreenCells /\ c.Y = 0
RectInBuffer(r) ==
    /\ r.Left >= 0 /\ r.Left <= r.Right /\ r.Right < ScreenCells
    /\ r.Top = 0 /\ r.Bottom = 0

InitCommon ==
    /\ handle = [c \in Consoles |->
                    IF c = "c" THEN FromRawHandle(InvalidHandle)
                    ELSE FromHandle(ValidHandle)]
    /\ queue = <<>>
    /\ attribute = 7
    /\ screen = [i \in 1..ScreenCells |-> 7]
    /\ cursor = 0
    /\ window = [Left |-> 0, Top |-> 0, Right |-> ScreenCells - 1, Bottom |-> 0]
    /\ pc = "ready"
    /\ op = "none"
    /\ self = "a"
    /\ arg = <<>>
    /\ buf_len = 0
    /\ calls = <<>>
    /\ ret = Pending
    /\ last_set = [by |-> "none", value |-> 0]

Init == InitCommon /\ input = <<>>

\* The start of an invocation of o on Console this with arguments a.
Invoke(this, o, a) ==
    /\ pc = "ready"
    /\ op' = o
    /\ self' = this
    /\ arg' = a
    /\ UNCHANGED <<handle, input>>

\* The end of an invocation that made the device calls cs and returns r.
Return(cs, r) ==
    /\ calls' = cs
    /\ ret' = r
    /\ pc' = "ready"

\* ---------------------------------------------------------------- output
\* A result that reports success whatever the device signalled.
DeviceResult_ignored(ok, v) == Ok(v)

\* `if !is_true(call) { return Err(Error::last_os_error()) } ... Ok(v)`
DeviceResult(ok, v) == IF ~ok THEN Err("DeviceCallFailed") ELSE Ok(v)

\* A set_text_attribute that passes no value on to the device.
set_text_attribute_dropped(this, value) ==
    /\ Invoke(this, "set_text_attribute", [value |-> value])
    /\ Return(<<>>, Ok(<<>>))
    /\ last_set' = [by |-> this, value |-> value]
    /\ UNCHANGED <<device, buf_len>>

set_text_attribute(this, value) ==
    /\ Invoke(this, "set_text_attribute", [value |-> value])
    /\ \E ok \in DeviceOk(handle[this]) :
        /\ attribute' = IF ok THEN value ELSE attribute
        /\ Return(<<Call("SetConsoleTextAttribute", <<handle[this], value>>, ok, <<>>)>>,
                  DeviceResult(ok, <<>>))
    /\ last_set' = IF ret'.kind = "Ok" THEN [by |-> this, value |-> value] ELSE last_set
    /\ UNCHANGED <<queue, screen, cursor, window, buf_len>>

set_console_info(this, absolute, rect) ==
    /\ Invoke(this, "set_console_info", [absolute |-> absolute, rect |-> rect])
    /\ LET abs == IF absolute THEN 1 ELSE 0
           a == SmallRectFrom(rect)
           target == IF abs = 1 THEN a
                     ELSE [Left |-> window.Left + a.Left, Top |-> window.Top + a.Top,
                           Right |-> window.Right + a.Right,
                           Bottom |-> window.Bottom + a.Bottom]
       IN  \E ok \in {s \in DeviceOk(handle[this]) : s => RectInBuffer(target)} :
            /\ window' = IF ok THEN target ELSE window
            /\ Return(<<Call("SetConsoleWindowInfo", <<handle[this], abs, a>>, ok, <<>>)>>,
                      DeviceResult(ok, <<>>))
    /\ UNCHANGED <<queue, attribute, screen, cursor, buf_len, last_set>>

fill_whit_character(this, start_location, cells_to_write, filling_char) ==
    /\ Invoke(this, "fill_whit_character",
              [start_location |-> start_location, cells_to_write |-> cells_to_write,
               filling_char |-> filling_char])
    /\ LET at == CoordToNative(start_location)
       IN  \E ok \in {s \in DeviceOk(handle[this]) : s => CoordInBuffer(at)} :
            LET chars_written == IF ok THEN Min(cells_to_write, ScreenCells - at.X) ELSE 0
            IN  Return(<<Call("FillConsoleOutputCharacterA",
                              <<handle[this], AsI8(filling_char), cells_to_write, at>>,
                              ok, chars_written)>>,
                       DeviceResult(ok, chars_written))
    /\ UNCHANGED <<device, buf_len, last_set>>

fill_whit_attribute(this, start_location, cells_to_write, dw_attribute) ==
    /\ Invoke(this, "fill_whit_attribute",
              [start_location |-> start_location, cells_to_write |-> cells_to_write,
               dw_attribute |-> dw_attribute])
    /\ LET at == CoordToNative(start_location)
       IN  \E ok \in {s \in DeviceOk(handle[this]) : s => CoordInBuffer(at)} :
            LET cells_written == IF ok THEN Min(cells_to_write, ScreenCells - at.X) ELSE 0
            IN  /\ screen' = Stamp(screen, IF ok THEN at.X ELSE 0, cells_written, dw_attribute)
                /\ Return(<<Call("FillConsoleOutputAttribute",
                                 <<handle[this], dw_attribute, cells_to_write, at>>,
                                 ok, cells_written)>>,
                          DeviceResult(ok, cells_written))
    /\ UNCHANGED <<queue, attribute, cursor, window, buf_len, last_set>>

\* No failure signal is checked: a failed query yields the zero coordinate.
largest_window_size(this) ==
    /\ Invoke(this, "largest_window_size", <<>>)
    /\ \E ok \in DeviceOk(handle[this]) :
        LET size == IF ok THEN [X |-> ScreenCells, Y |-> 1] ELSE [X |-> 0, Y |-> 0]
        IN  Return(<<Call("GetLargestConsoleWindowSize", <<handle[this]>>, ok, size)>>,
                   Ok(CoordFromNative(size)))
    /\ UNCHANGED <<device, buf_len, last_set>>

\* A result that reports the device's written-count.
WriteResult_units(ok, utf8, cells_written) ==
    IF ~ok THEN Err("DeviceCallFailed") ELSE Ok(cells_written)

\* The result of write_char_buffer after its device call.
WriteResult(ok, utf8, cells_written) ==
    IF ~ok THEN Err("DeviceCallFailed") ELSE Ok(Len(utf8))

write_char_buffer(this, buf) ==
    /\ Invoke(this, "write_char_buffer", [buf |-> buf])
    /\ IF ~from_utf8(buf)
       THEN /\ Return(<<>>, Err("EncodingError"))
            /\ UNCHANGED <<screen, cursor>>
       ELSE LET utf16 == encode_utf16(buf)
            IN  \E ok \in DeviceOk(handle[this]) :
                \E cells_written \in (IF ok THEN 0..Len(utf16) ELSE {0}) :
                    /\ screen' = Stamp(screen, cursor, cells_written, attribute)
                    /\ cursor' = (cursor + cells_written) % ScreenCells
                    /\ Return(<<Call("WriteConsoleW", <<handle[this], utf16, Len(utf16)>>,
                                     ok, cells_written)>>,
                              WriteResult(ok, buf, cells_written))
    /\ UNCHANGED <<queue, attribute, window, buf_len, last_set>>

\* ----------------------------------------------------------------- input
\* The result of number_of_console_input_events after its device call, which
\* handed back n.
NumberOfEvents_zeroed(ok, n) == IF ~ok THEN Err("DeviceCallFailed") ELSE Ok(0)

NumberOfEvents(ok, n) == DeviceResult(ok, n)

number_of_console_input_events(this) ==
    /\ Invoke(this, "number_of_console_input_events", <<>>)
    /\ \E ok \in DeviceOk(handle[this]) :
        LET n == IF ok THEN Len(queue) ELSE 0
        IN  Return(<<Call("GetNumberOfConsoleInputEvents", <<handle[this]>>, ok, n)>>,
                   NumberOfEvents(ok, n))
    /\ UNCHANGED <<device, buf_len, last_set>>

\* `if buf_len == 0 { return ... }`: nothing to read, skip the read call.
FastPath_never(n) == FALSE

FastPath(n) == n = 0

\* What the fast path returns.
Nothing(o) == IF o = "read_single_input_event" THEN Ok(None) ELSE Ok(<<0, <<>>>>)

\* The number of records the read call asks for.
ReadLen_more(o, n) == IF o = "read_single_input_event" THEN 1 ELSE n + 1
ReadLen_all(o, n) == n

ReadLen(o, n) == IF o = "read_single_input_event" THEN 1 ELSE n

\* The first step of read_single_input_event and read_console_input: the
\* pending-count query, the `?` on its result and the fast path.
ReadStart(this, o) ==
    /\ Invoke(this, o, <<>>)
    /\ \E ok \in DeviceOk(handle[this]) :
        LET n == IF ok THEN Len(queue) ELSE 0
            query == Call("GetNumberOfConsoleInputEvents", <<handle[this]>>, ok, n)
            r == NumberOfEvents(ok, n)
        IN  IF r.kind = "Err"
            THEN Return(<<query>>, r) /\ UNCHANGED buf_len
            ELSE IF FastPath(r.val)
            THEN Return(<<query>>, Nothing(o)) /\ UNCHANGED buf_len
            ELSE /\ calls' = <<query>>
                 /\ ret' = Pending
                 /\ buf_len' = r.val
                 /\ pc' = "read_input"
    /\ UNCHANGED <<device, last_set>>

read_single_input_event(this) == ReadStart(this, "read_single_input_event")

read_console_input(this) == ReadStart(this, "read_console_input")

\* What read_input returns: the count it asked for and the conversion of the
\* first buf_len records of the buffer.
ReadInputResult(ok, len, buf) ==
    IF ~ok THEN Err("DeviceCallFailed")
    ELSE Ok(<<len, [i \in 1..len |-> InputRecordFrom(buf[i])]>>)

\* What the operation makes of read_input's result.
ReadResult(o, r) ==
    IF r.kind = "Err" THEN r
    ELSE IF o = "read_single_input_event" THEN Ok(Some(r.val[2][1]))
    ELSE r

\* The second step: the read call.  The device blocks until a record is
\* pending, then delivers the oldest records, at most as many as asked for.
\* The buffer's slots past the delivered records were never written:
\* set_len exposes them, and they hold any record.
read_input(this) ==
    /\ pc = "read_input"
    /\ this = self
    /\ \E ok \in DeviceOk(handle[this]) :
        LET len == ReadLen(op, buf_len)
            k == IF ok THEN Min(len, Len(queue)) ELSE 0
            delivered == SubSeq(queue, 1, k)
        IN  /\ ok => Len(queue) > 0
            /\ queue' = SubSeq(queue, k + 1, Len(queue))
            /\ \E uninit \in [(k + 1)..len -> NativeRecords] :
                LET buf == [i \in 1..len |-> IF i <= k THEN delivered[i] ELSE uninit[i]]
                IN  Return(Append(calls,
                               Call("ReadConsoleInputW", <<handle[this], len>>, ok, delivered)),
                           ReadResult(op, ReadInputResult(ok, len, buf)))
    /\ UNCHANGED <<output, handle, op, self, arg, buf_len, input, last_set>>

\* ------------------------------------------------------------ environment
\* The keyboard / mouse subsystem queues a record.
Produce(r) ==
    /\ Len(queue) < MaxQueue
    /\ queue' = Append(queue, r)
    /\ UNCHANGED <<output, handle, pc, op, self, arg, buf_len, calls, ret, input, last_set>>

\* Another reader of the device takes the oldest record.
Consume ==
    /\ queue # <<>>
    /\ queue' = Tail(queue)
    /\ UNCHANGED <<output, handle, pc, op, self, arg, buf_len, calls, ret, input, last_set>>

\* ---------------------------------------------------------- specifications
NextIn ==
    \/ \E this \in Consoles : number_of_console_input_events(this)
    \/ \E this \in Consoles : read_single_input_event(this)
    \/ \E this \in Consoles : read_console_input(this)
    \/ \E this \in Consoles : read_input(this)
    \/ \E r \in NativeRecords : Produce(r)
    \/ Consume

NextOut ==
    \/ \E this \in Consoles, value \in Attributes : set_text_attribute(this, value)
    \/ \E this \in Consoles, absolute \in BOOLEAN, rect \in Rects :
        set_console_info(this, absolute, rect)
    \/ \E this \in Consoles, at \in Coords, n \in CellCounts, ch \in FillChars :
        fill_whit_character(this, at, n, ch)
    \/ \E this \in Consoles, at \in Coords, n \in CellCounts, a \in Attributes :
        fill_whit_attribute(this, at, n, a)
    \/ \E this \in Consoles : largest_window_size(this)
    \/ \E this \in Consoles, buf \in SampleBufs : write_char_buffer(this, buf)

\* Input operations against a device other parties produce to and consume from.
SpecIn == Init /\ [][NextIn]_vars

\* Output operations.
SpecOut == Init /\ [][NextOut]_vars

\* Every operation, the environment included, on one representative argument
\* per outcome of each operation.
Next ==
    \/ \E this \in Consoles : number_of_console_input_events(this)
    \/ \E this \in Consoles : read_single_input_event(this)
    \/ \E this \in Consoles : read_console_input(this)
    \/ \E this \in Consoles : read_input(this)
    \/ \E r \in {n \in NativeRecords : n.EventType = "KEY_EVENT"} : Produce(r)
    \/ Consume
    \/ \E this \in Consoles : set_text_attribute(this, 12)
    \/ \E this \in Consoles, rect \in Rects : set_console_info(this, TRUE, rect)
    \/ \E this \in Consoles, at \in Coords :
        fill_whit_character(this, at, ScreenCells + 1, 233)
    \/ \E this \in Consoles, at \in Coords :
        fill_whit_attribute(this, at, ScreenCells + 1, 12)
    \/ \E this \in Consoles : largest_window_size(this)
    \/ \E this \in Consoles, buf \in {<<195, 169>>, <<128>>} : write_char_buffer(this, buf)

Spec == Init /\ [][Next]_vars

\* write_char_buffer on every buffer of at most MaxBufLen bytes.
InitW == InitCommon /\ input \in AllBufs
NextW == \E this \in Consoles : write_char_buffer(this, input)
SpecW == InitW /\ [][NextW]_vars

\* ------------------------------------------------------------- properties
QUERY == "GetNumberOfConsoleInputEvents"
READ == "ReadConsoleInputW"

IsReadOp(o) == o \in {"read_single_input_event", "read_console_input"}

\* Some Console starts a read operation in this step.
ReadStarts ==
    \E this \in Consoles : read_single_input_event(this) \/ read_console_input(this)

\* The conversion of a sequence of native records, in order.
Converted(recs) == [i \in 1..Len(recs) |-> InputRecordFrom(recs[i])]

\* The number of UTF-16 units of a text: one per code point of the basic
\* plane, two per code point above it.
RECURSIVE UnitCount(_)
UnitCount(cps) ==
    IF cps = <<>> THEN 0
    ELSE (IF Head(cps) >= 65536 THEN 2 ELSE 1) + UnitCount(Tail(cps))

\* C1: a read call is only ever the second device call of an invocation whose
\* first call, the pending-count query, succeeded with a nonzero count; and a
\* read operation whose query returns zero ends in that step with "no event"
\* (None, or (0, empty sequence)), no read call and the queue untouched.
C1_CheckThenRead ==
    [][ /\ \A i \in 1..Len(calls') :
            calls'[i].fn = READ =>
                /\ i = 2
                /\ calls'[1].fn = QUERY
                /\ calls'[1].ok
                /\ calls'[1].out > 0
        /\ (ReadStarts /\ calls'[1].ok /\ calls'[1].out = 0) =>
                /\ pc' = "ready"
                /\ ret' = (IF op' = "read_single_input_event"
                           THEN Ok(None) ELSE Ok(<<0, <<>>>>))
                /\ Len(calls') = 1
                /\ queue' = queue
      ]_vars

C1_Witness ==
    /\ pc = "ready"
    /\ op = "read_console_input"
    /\ handle[self] = ValidHandle
    /\ Len(calls) = 1 /\ calls[1].fn = QUERY /\ calls[1].ok /\ calls[1].out = 0
    /\ ret = Ok(<<0, <<>>>>)

\* C2: write_char_buffer on a buffer that is not valid UTF-8 returns the
\* EncodingError (not DeviceCallFailed), makes no device call, and leaves the
\* screen cells and the cursor as they were.
C2_InvalidUtf8Rejected ==
    [][ ((\E this \in Consoles : write_char_buffer(this, input)) /\ ~Utf8Valid(input)) =>
            /\ ret' = Err("EncodingError")
            /\ ret' # Err("DeviceCallFailed")
            /\ calls' = <<>>
            /\ screen' = screen
            /\ cursor' = cursor
      ]_vars

C2_Witness ==
    /\ pc = "ready"
    /\ op = "write_char_buffer"
    /\ arg.buf = <<128>>
    /\ ret = Err("EncodingError")
    /\ calls = <<>>

\* C3: write_char_buffer on valid UTF-8 makes exactly one device call, a write
\* whose requested length is the number of UTF-16 units of the text, and when
\* that call succeeds returns the UTF-8 byte length of the input, whatever
\* written-count the device reported.
C3_ReturnsByteLength ==
    (pc = "ready" /\ op = "write_char_buffer" /\ Utf8Valid(arg.buf)) =>
        /\ Len(calls) = 1
        /\ calls[1].fn = "WriteConsoleW"
        /\ calls[1].arg[3] = UnitCount(Chars(arg.buf))
        /\ Len(calls[1].arg[2]) = calls[1].arg[3]
        /\ calls[1].ok => ret = Ok(Len(arg.buf))

\* "e-acute": 2 bytes, 1 unit, the device reports 0 units written, 2 returned.
C3_Witness ==
    /\ pc = "ready"
    /\ op = "write_char_buffer"
    /\ arg.buf = <<195, 169>>
    /\ calls[1].ok
    /\ calls[1].arg[2] = <<233>>
    /\ calls[1].arg[3] = 1
    /\ calls[1].out = 0
    /\ ret = Ok(2)

\* C4: when read_console_input's read call succeeds, it returns the records
\* the device delivered, converted, in order, and their number.
C4_ReturnsDeliveredBatch ==
    (pc = "ready" /\ op = "read_console_input" /\ Len(calls) = 2 /\ calls[2].ok) =>
        ret = Ok(<<Len(calls[2].out), Converted(calls[2].out)>>)

\* C5: whatever happens to the queue between the query and the read,
\* read_console_input asks for at most the count it observed, and a read call
\* that succeeds, with however few records, makes the operation succeed.
C5_DefensiveRead ==
    (pc = "ready" /\ op = "read_console_input" /\ Len(calls) = 2) =>
        /\ calls[2].fn = READ
        /\ calls[2].arg[2] <= calls[1].out
        /\ calls[2].ok => ret.kind = "Ok"

\* The device delivered fewer records than were asked for.
C5_Witness ==
    /\ pc = "ready"
    /\ op = "read_console_input"
    /\ Len(calls) = 2
    /\ calls[2].ok
    /\ Len(calls[2].out) < calls[2].arg[2]
    /\ ret.kind = "Ok"

\* C6: the read call of read_single_input_event asks for exactly one record;
\* when it succeeds the operation returns Some(conversion of the record at
\* the head of the queue) and the queue keeps the other records, in order.
C6_SingleReadTakesHead ==
    [][ \A this \in Consoles :
            (read_input(this) /\ op = "read_single_input_event") =>
                /\ calls'[2].arg[2] = 1
                /\ calls'[2].ok =>
                    /\ ret' = Ok(Some(InputRecordFrom(Head(queue))))
                    /\ queue' = Tail(queue)
      ]_vars

C6_Witness ==
    /\ pc = "ready"
    /\ op = "read_single_input_event"
    /\ Len(calls) = 2 /\ calls[2].ok
    /\ calls[1].out = 2
    /\ ret = Ok(Some([kind |-> "KeyEvent", key_down |-> TRUE, virtual_key_code |-> 65]))
    /\ queue = <<[EventType |-> "MOUSE_EVENT", X |-> 1, Y |-> 0]>>

\* C7: number_of_console_input_events, when its device call succeeds, returns
\* the number of queued records and leaves the queue as it was (so a second
\* call with no input activity in between returns the same value).
C7_CountWithoutConsuming ==
    [][ \A this \in Consoles :
            (number_of_console_input_events(this) /\ calls'[1].ok) =>
                /\ ret' = Ok(Len(queue))
                /\ queue' = queue
                /\ Len(queue') = ret'.val
      ]_vars

C7_Witness ==
    /\ pc = "ready"
    /\ op = "number_of_console_input_events"
    /\ ret = Ok(2)
    /\ Len(queue) = 2

\* C8: a Console's handle never changes, and the cells a successful
\* write_char_buffer writes through one Console carry the attribute that the
\* last successful set_text_attribute set through another Console of the
\* same Handle.
C8_SharedAttribute ==
    [][ /\ handle' = handle
        /\ \A this \in Consoles :
            ( /\ \E buf \in SampleBufs : write_char_buffer(this, buf)
              /\ ret'.kind = "Ok"
              /\ last_set.by \in Consoles \ {this}
              /\ handle[last_set.by] = handle[this] ) =>
                \A j \in 0..(calls'[1].out - 1) :
                    screen'[((cursor + j) % ScreenCells) + 1] = last_set.value
      ]_vars

C8_Witness ==
    /\ pc = "ready"
    /\ op = "write_char_buffer"
    /\ self = "b"
    /\ last_set = [by |-> "a", value |-> 12]
    /\ ret.kind = "Ok"
    /\ calls[1].out = 1
    /\ \E i \in 1..ScreenCells : screen[i] = 12 /\ \E k \in 1..ScreenCells : screen[k] = 7

\* C9: in a fallible operation a device call that signals failure is the last
\* call of the invocation, no call of the invocation went to the same device
\* function before it, and the operation has returned DeviceCallFailed; when
\* the query of a read operation fails the queue is untouched.
Fallible == op \notin {"none", "largest_window_size"}

C9_FailFast ==
    [][ /\ \A i \in 1..Len(calls') :
            (Fallible' /\ ~calls'[i].ok) =>
                /\ i = Len(calls')
                /\ \A j \in 1..(i - 1) : calls'[j].fn # calls'[i].fn
                /\ pc' = "ready"
                /\ ret' = Err("DeviceCallFailed")
        /\ (ReadStarts /\ ~calls'[1].ok) =>
                /\ Len(calls') = 1
                /\ queue' = queue
                /\ pc' = "ready"
      ]_vars

\* The query of a read fails on a valid handle with records pending.
C9_Witness ==
    /\ pc = "ready"
    /\ IsReadOp(op)
    /\ handle[self] = ValidHandle
    /\ queue # <<>>
    /\ Len(calls) = 1 /\ ~calls[1].ok
    /\ ret = Err("DeviceCallFailed")

\* C10 as stated: every finished invocation (write_char_buffer on valid input
\* only) made exactly one device call.
C10_OneCallEach ==
    (pc = "ready" /\ op # "none"
        /\ ~(op = "write_char_buffer" /\ ~Utf8Valid(arg.buf))) =>
        Len(calls) = 1

\* C10 amended: every finished invocation made exactly one device call,
\* except that write_char_buffer on invalid input made none and a read
\* operation whose query succeeded with a nonzero count made two, the query
\* and then one read call; between the two the invocation has made one.
C10_CallCounts ==
    /\ (pc = "read_input") =>
        /\ IsReadOp(op) /\ Len(calls) = 1 /\ calls[1].fn = QUERY
    /\ (pc = "ready" /\ op # "none") =>
        IF op = "write_char_buffer" /\ ~Utf8Valid(arg.buf)
        THEN calls = <<>>
        ELSE IF IsReadOp(op) /\ calls[1].ok /\ calls[1].out > 0
        THEN Len(calls) = 2 /\ calls[1].fn = QUERY /\ calls[2].fn = READ
        ELSE Len(calls) = 1

C10_Witness ==
    /\ pc = "ready"
    /\ op = "read_single_input_event"
    /\ Len(calls) = 2
    /\ calls[2].ok

====
